---- MODULE Spec2Model ----
(***************************************************************************)
(* A model of ParallelService (src/src/services/shared/parallel.service.js) *)
(* of the emoo CLI: the listr2-backed task pools createScanTasks and        *)
(* createProcessTasks, the two-phase createScanAndProcessWorkflow, the      *)
(* summary reducer generateSummary and the chunked createRateLimitedTasks;  *)
(* and of the hand-written job pool runParallel (src/src/imap-sync.js),     *)
(* which ImapService.runParallelSyncs repeats line for line.                *)
(*                                                                          *)
(* JavaScript values are modelled as follows.  Undefined stands for an      *)
(* absent property / undefined / null; "" is the empty string.  Both are    *)
(* falsy, every other modelled value is truthy.                             *)
(*                                                                          *)
(* listr2 is a library the service calls.  Its documented behaviour is      *)
(* modelled where the service uses it: a Listr with { concurrent: n } takes *)
(* its tasks in list order and starts one only while fewer than n are       *)
(* running; run() resolves with the context object (initially {}) once      *)
(* every task has ended; with exitOnError a task that throws makes run()    *)
(* reject and no further task is started, while the tasks already running   *)
(* go on to their end.  An await is a step boundary: each action below is   *)
(* the code that runs between two awaits.                                   *)
(*                                                                          *)
(* Promise.race over promises of which some are already settled resolves    *)
(* with the first of them in array order; otherwise with the first to       *)
(* settle.  A promise that is awaited when already settled resumes the      *)
(* function before any further child-process or timer event is delivered.   *)
(*                                                                          *)
(* options.batchSize is a positive integer or absent and options.delay a    *)
(* non-negative number or absent.                                           *)
(*                                                                          *)
(* scanFunction and processFunction reject with Error objects, whose        *)
(* message may be the empty string.  Task titles, console output and the    *)
(* timestamp of a failure record are not modelled.                          *)
(***************************************************************************)
EXTENDS Integers, Sequences, FiniteSets, TLC

\* ------------------------------------------------------------------ bounds
\* Longest result array handed to generateSummary.
MaxResults == 2
\* Longest item list handed directly to createProcessTasks.
MaxItems == 3
\* Longest scan-item list handed to createScanAndProcessWorkflow.
MaxScan == 2
\* Most sub-items the scans of one workflow discover in all.
MaxFound == 2
\* Largest concurrency passed through options.concurrency.
MaxConc == 2
\* Longest item list handed to createRateLimitedTasks when its batches are run.
MaxRateItems == 3
\* Largest options.batchSize of such a call.
MaxBatch == 2
\* Longest configs list handed to runParallel, and the largest maxJobs.
MaxConfigs == 4
MaxJobs == 3
\* Most emails one password-reset or account-creation command processes.
MaxRecords == 3
\* Longest item list and largest options.batchSize when only the split is made.
MaxChunkItems == 25
MaxChunkSize == 11

\* --------------------------------------------------------- program constants
\* constructor: this.defaultConcurrency = options.concurrency || 3
DefaultConcurrency == 3
\* createRateLimitedTasks: const batchSize = options.batchSize || 10
DefaultBatchSize == 10
\* createRateLimitedTasks: const delayBetweenBatches = options.delay || 1000
DefaultDelay == 1000

\* ------------------------------------------------------------- JS values
Undefined == "undefined"

Truthy(v) == v \notin {Undefined, ""}

\* ------------------------------------------------------- generateSummary
\* The status and error fields a result record can carry.
StatusValues == {"SKIPPED", "FAILED", "SUCCESS", "", Undefined}
ErrorValues == {Undefined, "", "boom"}
ResultRecords == [status : StatusValues, error : ErrorValues]

\* r => r.status === 'SUCCESS' || (!r.status && !r.error)
IsSuccessfulMutant(r) == r.status = "SUCCESS" \/ ~Truthy(r.status)
IsSuccessful(r) == r.status = "SUCCESS" \/ (~Truthy(r.status) /\ ~Truthy(r.error))

\* r => r.status === 'FAILED' || r.error
IsFailedMutant(r) == r.status # "SUCCESS" \/ Truthy(r.error)
IsFailed(r) == r.status = "FAILED" \/ Truthy(r.error)

ZeroSummary == [total |-> 0, successful |-> 0, failed |-> 0, skipped |-> 0]

\* generateSummary(results): input.isArray is Array.isArray(results).
generateSummary(input) ==
  IF ~input.isArray
    THEN ZeroSummary
    ELSE LET total == Len(input.recs)
             successful == Len(SelectSeq(input.recs, IsSuccessful))
             failed == Len(SelectSeq(input.recs, IsFailed))
         IN [total |-> total, successful |-> successful, failed |-> failed,
             skipped |-> total - successful - failed]

SeqsUpTo(S, n) == UNION {[1..k -> S] : k \in 0..n}

SummaryInputs ==
  {[isArray |-> TRUE, recs |-> rs] : rs \in SeqsUpTo(ResultRecords, MaxResults)}
    \cup {[isArray |-> FALSE, recs |-> <<>>]}

VARIABLES sumInput, sumPc, summary

sumVars == <<sumInput, sumPc, summary>>

\* ------------------------------------------------------------ work items
\* Names of the items handed directly to createProcessTasks.
ItemNames == {"x", "y"}
\* The sub-items a scan can discover, in discovery order.
FoundNames == <<"x", "y">>
\* Scan items (e.g. domains); "1" is an integer-like property name.
ScanKeys == {"a", "b", "1"}
ArrayIndexKeys == {"1"}
KeyNumber(k) == IF k = "1" THEN 1 ELSE 0

NoItem == [kind |-> "none", dom |-> Undefined, val |-> Undefined]
\* An item passed through as it is (a direct input, an element of a scan array).
Raw(e) == [kind |-> "raw", dom |-> Undefined, val |-> e]
\* ({ domain, emailUser }) built by the caller's extractor.
Email(d, u) == [kind |-> "email", dom |-> d, val |-> u]
\* A non-array scan result pushed as one process item.
Whole(v) == [kind |-> v.kind, dom |-> Undefined, val |-> v.error]

\* ---------------------------------------------------------- scan results
ScanArray(es) == [kind |-> "array", elems |-> es, error |-> Undefined]
\* ({ domain, emails, count }) as returned by the reset command's scan function.
ScanObject(es) == [kind |-> "object", elems |-> es, error |-> Undefined]
ScanNull == [kind |-> "null", elems |-> <<>>, error |-> Undefined]
\* ({ error: error.message }) stored by the scan task's catch block.
ScanError(m) == [kind |-> "errorObject", elems |-> <<>>, error |-> m]

FoundLists == {SubSeq(FoundNames, 1, n) : n \in 0..Len(FoundNames)}
\* What scanFunction may resolve with, and the messages it may reject with.
ScanValues == {ScanArray(es) : es \in FoundLists} \cup {ScanObject(<<"x">>), ScanNull}
ScanMessages == {"boom", ""}

\* What processFunction may resolve with, and the messages it may reject with.
ProcValues == {[status |-> "SUCCESS", error |-> Undefined]}
ProcMessages == {"boom"}
\* The message of an error thrown by the progress callback.
CallbackMessage == "observer"

\* ------------------------------------------------ objects as ordered maps
\* A plain object: its own string-keyed properties in insertion order.
UndefinedObject == [defined |-> FALSE, entries |-> <<>>]
UndefinedArray == [defined |-> FALSE, list |-> <<>>]
EmptyArray == [defined |-> TRUE, list |-> <<>>]

HasKey(entries, k) == \E i \in DOMAIN entries : entries[i].key = k

\* ctx.scanResults = ctx.scanResults || {}; ctx.scanResults[item] = value
SetScanResult(obj, k, v) ==
  [defined |-> TRUE,
   entries |-> IF HasKey(obj.entries, k)
                 THEN [i \in DOMAIN obj.entries |->
                         IF obj.entries[i].key = k
                           THEN [key |-> k, val |-> v] ELSE obj.entries[i]]
                 ELSE Append(obj.entries, [key |-> k, val |-> v])]

IsArrayIndex(e) == e.key \in ArrayIndexKeys
IsNamedKey(e) == e.key \notin ArrayIndexKeys

RECURSIVE InsertByNumber(_, _)
InsertByNumber(e, sorted) ==
  IF sorted = <<>> THEN <<e>>
  ELSE IF KeyNumber(e.key) < KeyNumber(Head(sorted).key) THEN <<e>> \o sorted
  ELSE <<Head(sorted)>> \o InsertByNumber(e, Tail(sorted))

RECURSIVE SortByNumber(_)
SortByNumber(es) ==
  IF es = <<>> THEN <<>> ELSE InsertByNumber(Head(es), SortByNumber(Tail(es)))

\* Object.entries(obj): integer-like keys ascending, then the others in
\* insertion order.
ObjectEntries(entries) ==
  SortByNumber(SelectSeq(entries, IsArrayIndex)) \o SelectSeq(entries, IsNamedKey)

\* ------------------------------------------------------------ extraction
\* extractEmailsFromScanResult of the reset command.
extractEmailsFromScanResult(domain, scanResult) ==
  IF Truthy(scanResult.error) \/ scanResult.kind # "object"
    THEN <<>>
    ELSE [i \in DOMAIN scanResult.elems |-> Email(domain, scanResult.elems[i])]

\* The items one non-skipped scan entry adds to itemsToProcess.
extractedItems(scanItem, scanResult, hasExtract) ==
  IF hasExtract
    THEN extractEmailsFromScanResult(scanItem, scanResult)
    ELSE IF scanResult.kind = "array"
      THEN [i \in DOMAIN scanResult.elems |-> Raw(scanResult.elems[i])]
      ELSE IF scanResult.kind = "null" THEN <<>> ELSE <<Whole(scanResult)>>

\* if (scanResult.error) ... continue
SkipsScanResult(scanResult) == Truthy(scanResult.error)

\* The extraction loop; threw is the TypeError of reading .error of null.
RECURSIVE collectItems(_, _, _)
collectItems(entries, hasExtract, acc) ==
  IF entries = <<>> THEN [threw |-> FALSE, items |-> acc]
  ELSE LET e == Head(entries) IN
    IF e.val.kind = "null" THEN [threw |-> TRUE, items |-> acc]
    ELSE IF SkipsScanResult(e.val)
      THEN collectItems(Tail(entries), hasExtract, acc)
      ELSE collectItems(Tail(entries), hasExtract,
                        acc \o extractedItems(e.key, e.val, hasExtract))

\* ------------------------------------------------------------------ state
VARIABLES
  cfg,            \* the constructor options and the call's options
  pc,             \* "scan", "process", "resolved", "rejected", "idle"
  raised,         \* the message of the error the call rejected with
  returned,       \* the value the call resolved with
  scanItems,      \* the workflow's scan items
  scanState,      \* per scan task: "pending", "running", "done", "skipped"
  scanResults,    \* ctx.scanResults of the scan run
  items,          \* the items of the process run
  taskState,      \* per process task: "pending", "running", "done", "threw"
  processResults, \* ctx.processResults of the process run
  pushedBy,       \* for each entry of processResults, the task that pushed it
  fnLog,          \* per process task, how its processFunction call settled
  cbCalls,        \* the progress callback's invocations, in order
  poolStopped,    \* the task pool dropped its queue after a task threw
  hung            \* the process task whose processFunction never settles; 0: none

poolVars == <<cfg, hung, pc, raised, returned, scanItems, scanState, scanResults, items,
              taskState, processResults, pushedBy, fnLog, cbCalls, poolStopped>>

\* createRateLimitedTasks: its position and its locals.
VARIABLES
  rlPc,           \* "idle", "called", "batch", "sleep", "resolved" or "rejected"
  rlItems,        \* the items argument
  batches,        \* const batches
  batchIndex,     \* let batchIndex, 0-based as in the code
  allResults,     \* let allResults
  allPushedBy,    \* per entry of allResults, the position in rlItems that pushed it
  pauses,         \* how many inter-batch timers have been set
  elapsed,        \* how many of them have fired
  batchStarts     \* per createProcessTasks call made, what held when it was made

rlVars == <<rlPc, rlItems, batches, batchIndex, allResults, allPushedBy, pauses,
            elapsed, batchStarts>>

\* runParallel / runParallelSyncs: its position, arguments and locals.
VARIABLES
  jpPc,           \* "idle", "called", "race", "all" or "resolved"
  configs,        \* the configs argument: per row, "sync" or "skip"
  dryRun,         \* options.dryRun
  maxJobs,        \* the maxJobs argument
  loopIndex,      \* let i, 0-based as in the code
  running,        \* const running: the promises of the jobs
  results,        \* const results: the values pushed
  jobState,       \* per config, "unstarted", "inFlight" or "settled"
  startOrder      \* the configs whose job was started, in the order of the calls

jpVars == <<jpPc, configs, dryRun, maxJobs, loopIndex, running, results, jobState,
            startOrder>>

\* ImapService.sync, from the point where the configs to sync are chosen.
VARIABLES
  syPc,           \* "idle", "called", "running" (taskList.run()) or "returned"
  selected,       \* configs after the selection, each "sync" or "skip"
  options,        \* options.dryRun and parseInt(options.jobs) (0: also absent or NaN)
  syncTasks,      \* the task list: the position in selected of each task's config
  syncTaskState,  \* per task, "pending", "running", "resolved" or "rejected"
  childState,     \* per task, "none", "spawned", "errored" or "closed"
  syncResults,    \* the shared counters successful, failed, dryRun
  counted,        \* per task, the counters its handlers incremented, in order
  syncSummary     \* what sync() returned

syVars == <<syPc, selected, options, syncTasks, syncTaskState, childState, syncResults,
            counted, syncSummary>>

\* The body of one sync task, from its command to its spawn.
VARIABLES
  rdPc,           \* "idle", "task" (the task starts) or "spawned"
  rdConfig,       \* the CSV row: src_host, src_user, src_pass, dst_host, ...
  rdOptions,      \* options.docker, options.debug, options.dryRun
  taskOutput,     \* the command text shown, as its words; <<>> when none is
  spawnCall       \* the command and the arguments handed to spawn

rdVars == <<rdPc, rdConfig, rdOptions, taskOutput, spawnCall>>

\* --------------------------------------------- generateSummary, called
SumInit ==
  /\ sumInput \in SummaryInputs
  /\ sumPc = "call"
  /\ summary = ZeroSummary

SumIdle ==
  /\ sumInput = [isArray |-> FALSE, recs |-> <<>>]
  /\ sumPc = "idle"
  /\ summary = ZeroSummary

GenerateSummary ==
  /\ sumPc = "call"
  /\ summary' = generateSummary(sumInput)
  /\ sumPc' = "returned"
  /\ UNCHANGED <<sumInput, poolVars, rlVars, jpVars, syVars, rdVars>>

\* ------------------------------------------------------------ concurrency
\* constructor: this.defaultConcurrency = options.concurrency || 3
defaultConcurrency(c) ==
  IF c.ctorConcurrency # 0 THEN c.ctorConcurrency ELSE DefaultConcurrency

Min(a, b) == IF a < b THEN a ELSE b
Max(a, b) == IF a > b THEN a ELSE b

\* createRateLimitedTasks: const batchSize = options.batchSize || 10
batchSize(c) == IF c.batchSize # 0 THEN c.batchSize ELSE DefaultBatchSize

\* createRateLimitedTasks: const delayBetweenBatches = options.delay || 1000
delayBetweenBatches(c) ==
  IF c.delay.given /\ c.delay.ms # 0 THEN c.delay.ms ELSE DefaultDelay

\* createRateLimitedTasks:
\* Math.min(options.concurrency || this.defaultConcurrency, batchSize)
clampedConcurrency(c) ==
  Min(IF c.optConcurrency # 0 THEN c.optConcurrency ELSE defaultConcurrency(c),
      batchSize(c))

\* createProcessTasks:
\* const concurrency = options.concurrency || this.defaultConcurrency;
\* createRateLimitedTasks passes its clamped concurrency as options.concurrency.
concurrency(c) ==
  LET given == IF c.op = "rateLimited" THEN clampedConcurrency(c) ELSE c.optConcurrency
  IN IF given # 0 THEN given ELSE defaultConcurrency(c)

\* The tasks of a pool whose function has been invoked and has not settled.
InFlight(states) == {i \in DOMAIN states : states[i] = "running"}

\* Listr's { concurrent: n }: a further task starts only while fewer than n run.
PoolHasCapacityMutant(states, n) == Cardinality(InFlight(states)) <= n
PoolHasCapacity(states, n) == Cardinality(InFlight(states)) < n

\* Tasks are taken from the list in order.
IsNextTaskMutant(states, i) ==
  /\ i \in DOMAIN states
  /\ states[i] = "pending"
IsNextTask(states, i) ==
  /\ i \in DOMAIN states
  /\ states[i] = "pending"
  /\ \A j \in 1..(i - 1) : states[j] # "pending"

AllSettledMutant(states) == TRUE
AllSettled(states) == \A i \in DOMAIN states : states[i] \notin {"pending", "running"}

AllPending(list) == [i \in DOMAIN list |-> "pending"]
NotCalled == [kind |-> "none", status |-> Undefined, error |-> Undefined]
NoCalls(list) == [i \in DOMAIN list |-> NotCalled]

\* --------------------------------------------------------------- Init
DistinctSeqs(S, n) ==
  {q \in SeqsUpTo(S, n) : \A i, j \in DOMAIN q : i # j => q[i] # q[j]}

\* new ParallelService({ concurrency }) and options.concurrency; 0 is "not given".
ConcurrencyChoices ==
  {[ctor |-> 0, opt |-> n] : n \in 0..MaxConc} \cup {[ctor |-> 1, opt |-> 0]}

Configs(op) ==
  {[op |-> op, exitOnError |-> e, ctorConcurrency |-> c.ctor,
    optConcurrency |-> c.opt, hasCallback |-> cb, hasExtract |-> ex] :
     e \in BOOLEAN, c \in ConcurrencyChoices,
     cb \in IF op = "scan" THEN {FALSE} ELSE BOOLEAN,
     ex \in IF op = "workflow" THEN BOOLEAN ELSE {FALSE}}

PoolFresh ==
  /\ raised = Undefined
  /\ returned = [scanResults |-> UndefinedObject, processResults |-> UndefinedArray]
  /\ scanResults = UndefinedObject
  /\ processResults = UndefinedArray
  /\ pushedBy = <<>>
  /\ cbCalls = <<>>
  /\ poolStopped = FALSE

\* createProcessTasks(items, processFunction, options) has been called.
ProcessInit ==
  /\ cfg \in Configs("process")
  /\ pc = "process"
  /\ scanItems = <<>>
  /\ scanState = <<>>
  /\ items \in {[i \in DOMAIN q |-> Raw(q[i])] : q \in SeqsUpTo(ItemNames, MaxItems)}
  /\ taskState = AllPending(items)
  /\ fnLog = NoCalls(items)
  /\ PoolFresh

\* createScanTasks(items, scanFunction, options) has been called.
ScanInit ==
  /\ cfg \in Configs("scan")
  /\ pc = "scan"
  /\ scanItems \in DistinctSeqs(ScanKeys, MaxScan)
  /\ scanState = AllPending(scanItems)
  /\ items = <<>>
  /\ taskState = <<>>
  /\ fnLog = <<>>
  /\ PoolFresh

\* createScanAndProcessWorkflow(scanItems, scanFunction, processFunction,
\* options) has been called.
WorkflowInit ==
  /\ cfg \in Configs("workflow")
  /\ pc = "scan"
  /\ scanItems \in DistinctSeqs(ScanKeys, MaxScan)
  /\ scanState = AllPending(scanItems)
  /\ items = <<>>
  /\ taskState = <<>>
  /\ fnLog = <<>>
  /\ PoolFresh

PoolIdle ==
  /\ hung = 0
  /\ cfg = [op |-> "none", exitOnError |-> FALSE, ctorConcurrency |-> 0,
            optConcurrency |-> 0, hasCallback |-> FALSE, hasExtract |-> FALSE]
  /\ pc = "idle"
  /\ scanItems = <<>>
  /\ scanState = <<>>
  /\ items = <<>>
  /\ taskState = <<>>
  /\ fnLog = <<>>
  /\ PoolFresh

\* createRateLimitedTasks has not been called.
RateIdle ==
  /\ rlPc = "idle"
  /\ rlItems = <<>>
  /\ batches = <<>>
  /\ batchIndex = 0
  /\ allResults = <<>>
  /\ allPushedBy = <<>>
  /\ pauses = 0
  /\ elapsed = 0
  /\ batchStarts = <<>>

\* runParallel has not been called.
JobsIdle ==
  /\ jpPc = "idle"
  /\ configs = <<>>
  /\ dryRun = FALSE
  /\ maxJobs = 0
  /\ loopIndex = 0
  /\ running = <<>>
  /\ results = <<>>
  /\ jobState = <<>>
  /\ startOrder = <<>>

NoRow ==
  [src_host |-> "", src_user |-> "", src_pass |-> "", dst_host |-> "", dst_user |-> "",
   dst_pass |-> ""]

\* No sync task body is under way.
RedactIdle ==
  /\ rdPc = "idle"
  /\ rdConfig = NoRow
  /\ rdOptions = [docker |-> FALSE, debug |-> FALSE, dryRun |-> FALSE]
  /\ taskOutput = <<>>
  /\ spawnCall = <<>>

\* const syncResults = { successful: 0, failed: 0, dryRun: 0 }
ZeroCounters == [successful |-> 0, failed |-> 0, dryRun |-> 0]

NoSummary ==
  [defined |-> FALSE, successful |-> 0, failed |-> 0, skipped |-> 0, dryRun |-> 0,
   total |-> 0]

\* sync has not been called.
SyncIdle ==
  /\ syPc = "idle"
  /\ selected = <<>>
  /\ options = [dryRun |-> FALSE, jobs |-> 0]
  /\ syncTasks = <<>>
  /\ syncTaskState = <<>>
  /\ childState = <<>>
  /\ syncResults = ZeroCounters
  /\ counted = <<>>
  /\ syncSummary = NoSummary

Init == (ProcessInit \/ ScanInit) /\ hung = 0 /\ SumIdle /\ RateIdle /\ JobsIdle /\ SyncIdle /\ RedactIdle

InitWorkflow == WorkflowInit /\ hung = 0 /\ SumIdle /\ RateIdle /\ JobsIdle /\ SyncIdle /\ RedactIdle

\* ------------------------------------------------------------ scan pool
\* The number of sub-items the scans have discovered so far; a workflow's
\* scans discover at most MaxFound sub-items in all.
RECURSIVE FoundSoFar(_)
FoundSoFar(entries) ==
  IF entries = <<>> THEN 0 ELSE Len(Head(entries).val.elems) + FoundSoFar(Tail(entries))

scanUnchanged0 == <<cfg, hung, raised, scanItems, items, taskState,
                    processResults, pushedBy, fnLog, cbCalls, poolStopped, sumVars, rlVars, jpVars, syVars, rdVars>>
scanUnchanged == <<returned, scanUnchanged0>>

\* The pool starts the scan task of scanItems[i]: scanFunction(item) is called.
StartScan(i) ==
  /\ pc = "scan"
  /\ IsNextTask(scanState, i)
  /\ PoolHasCapacity(scanState, concurrency(cfg))
  /\ scanState' = [scanState EXCEPT ![i] = "running"]
  /\ UNCHANGED <<pc, scanResults, scanUnchanged>>

\* scanFunction(item) resolves with v: the try block of the scan task.
ScanResolve(i, v) ==
  /\ i \in DOMAIN scanState
  /\ scanState[i] = "running"
  /\ cfg.op = "workflow" =>
       FoundSoFar(scanResults.entries) + Len(v.elems) <= MaxFound
  /\ scanResults' = SetScanResult(scanResults, scanItems[i], v)
  /\ scanState' = [scanState EXCEPT ![i] = "done"]
  /\ UNCHANGED <<pc, scanUnchanged>>

\* scanFunction(item) rejects with an Error of message m: the catch block.
ScanReject(i, m) ==
  /\ i \in DOMAIN scanState
  /\ scanState[i] = "running"
  /\ scanResults' = SetScanResult(scanResults, scanItems[i], ScanError(m))
  /\ scanState' = [scanState EXCEPT ![i] = "skipped"]
  /\ UNCHANGED <<pc, scanUnchanged>>

\* A direct call of createScanTasks: mainTask.run() resolves with ctx.
ScanPoolDone ==
  /\ cfg.op = "scan"
  /\ pc = "scan"
  /\ AllSettled(scanState)
  /\ pc' = "resolved"
  /\ returned' = [scanResults |-> scanResults, processResults |-> UndefinedArray]
  /\ UNCHANGED <<scanState, scanResults, scanUnchanged0>>

\* if (itemsToProcess.length === 0)
NothingToProcessMutant(list) == FALSE
NothingToProcess(list) == Len(list) = 0

\* createScanTasks has resolved inside the workflow, which builds
\* itemsToProcess and either returns or calls createProcessTasks.
ScanPhaseDone ==
  /\ cfg.op = "workflow"
  /\ pc = "scan"
  /\ AllSettled(scanState)
  /\ IF ~scanResults.defined
       THEN \* Object.entries(undefined)
            /\ pc' = "rejected"
            /\ raised' = "TypeError"
            /\ UNCHANGED <<returned, items, taskState, fnLog>>
       ELSE LET built == collectItems(ObjectEntries(scanResults.entries),
                                      cfg.hasExtract, <<>>)
            IN IF built.threw
                 THEN /\ pc' = "rejected"
                      /\ raised' = "TypeError"
                      /\ UNCHANGED <<returned, items, taskState, fnLog>>
                 ELSE IF NothingToProcess(built.items)
                   THEN /\ pc' = "resolved"
                        /\ returned' = [scanResults |-> scanResults,
                                        processResults |-> EmptyArray]
                        /\ UNCHANGED <<raised, items, taskState, fnLog>>
                   ELSE /\ pc' = "process"
                        /\ items' = built.items
                        /\ taskState' = AllPending(built.items)
                        /\ fnLog' = NoCalls(built.items)
                        /\ UNCHANGED <<raised, returned>>
  /\ UNCHANGED <<cfg, hung, scanItems, scanState, scanResults, processResults, pushedBy,
                 cbCalls, poolStopped, sumVars, rlVars, jpVars, syVars, rdVars>>

\* --------------------------------------------------------- process pool
\* The record the catch block of a process task pushes.
FailedRecord(item, message) == [item |-> item, status |-> "FAILED", error |-> message]
\* A value processFunction resolved with, as an entry of processResults.
ResultRecord(r) == [item |-> NoItem, status |-> r.status, error |-> r.error]

\* ctx.processResults = ctx.processResults || []; ctx.processResults.push(e)
PushResultMutant(arr, e) == [defined |-> TRUE, list |-> <<e>> \o arr.list]
PushResult(arr, e) == [defined |-> TRUE, list |-> Append(arr.list, e)]

\* Listr's exitOnError: once a task has thrown, the tasks not yet started are
\* dropped.
QueueOpenMutant == TRUE
QueueOpen == ~poolStopped

\* The pool starts the task of items[i]: processFunction(item, index) is called.
StartProcess(i) ==
  /\ pc \in {"process", "rejected"}
  /\ QueueOpen
  /\ IsNextTask(taskState, i)
  /\ PoolHasCapacity(taskState, concurrency(cfg))
  /\ taskState' = [taskState EXCEPT ![i] = "running"]
  /\ UNCHANGED <<cfg, hung, pc, raised, returned, scanItems, scanState, scanResults, items,
                 processResults, pushedBy, fnLog, cbCalls, poolStopped, sumVars, rlVars, jpVars, syVars, rdVars>>

\* The task of items[i] ends by throwing error message m (exitOnError only):
\* the pool starts no further task and the run rejects.
TaskThrows(i, m) ==
  /\ taskState' = [taskState EXCEPT ![i] = "threw"]
  /\ poolStopped' = TRUE
  /\ IF pc = "process"
       THEN pc' = "rejected" /\ raised' = m
       ELSE UNCHANGED <<pc, raised>>

TaskReturns(i) ==
  /\ taskState' = [taskState EXCEPT ![i] = "done"]
  /\ UNCHANGED <<pc, raised, poolStopped>>

\* The catch block of the task of items[i], entered with error message m,
\* ctx.processResults being arr.
CatchBlockMutant(i, m, arr, by) ==
  /\ processResults' = PushResult(arr, FailedRecord(items[i], m))
  /\ pushedBy' = Append(by, i)
  /\ TaskThrows(i, m)
CatchBlock(i, m, arr, by) ==
  /\ processResults' = PushResult(arr, FailedRecord(items[i], m))
  /\ pushedBy' = Append(by, i)
  /\ IF ~cfg.exitOnError THEN TaskReturns(i) ELSE TaskThrows(i, m)

\* processFunction(item, index) resolves with r; cbThrows tells whether the
\* progress callback, if there is one, throws.
ProcessResolve(i, r, cbThrows) ==
  /\ i \in DOMAIN taskState
  /\ taskState[i] = "running"
  /\ i # hung
  /\ cbThrows => cfg.hasCallback
  /\ fnLog' = [fnLog EXCEPT ![i] = [kind |-> "resolved", status |-> r.status,
                                    error |-> r.error]]
  /\ cbCalls' = IF cfg.hasCallback
                  THEN Append(cbCalls, [task |-> i, index |-> i - 1,
                                        total |-> Len(items), threw |-> cbThrows])
                  ELSE cbCalls
  /\ IF cbThrows
       THEN CatchBlock(i, CallbackMessage,
                       PushResult(processResults, ResultRecord(r)),
                       Append(pushedBy, i))
       ELSE /\ processResults' = PushResult(processResults, ResultRecord(r))
            /\ pushedBy' = Append(pushedBy, i)
            /\ TaskReturns(i)
  /\ UNCHANGED <<cfg, hung, returned, scanItems, scanState, scanResults, items, sumVars, rlVars, jpVars, syVars, rdVars>>

\* processFunction(item, index) rejects with an Error of message m.
ProcessReject(i, m) ==
  /\ i \in DOMAIN taskState
  /\ taskState[i] = "running"
  /\ i # hung
  /\ fnLog' = [fnLog EXCEPT ![i] = [kind |-> "rejected", status |-> Undefined,
                                    error |-> m]]
  /\ CatchBlock(i, m, processResults, pushedBy)
  /\ UNCHANGED <<cfg, hung, returned, scanItems, scanState, scanResults, items, cbCalls,
                 sumVars, rlVars, jpVars, syVars, rdVars>>

\* mainTask.run() resolves with ctx; the workflow wraps it.
ProcessPoolDone ==
  /\ pc = "process"
  /\ AllSettled(taskState)
  /\ pc' = "resolved"
  /\ returned' =
       IF cfg.op = "workflow"
         THEN [scanResults |-> scanResults,
               processResults |-> IF processResults.defined
                                    THEN processResults ELSE EmptyArray]
         ELSE [scanResults |-> UndefinedObject, processResults |-> processResults]
  /\ UNCHANGED <<cfg, hung, raised, scanItems, scanState, scanResults, items, taskState,
                 processResults, pushedBy, fnLog, cbCalls, poolStopped, sumVars, rlVars, jpVars, syVars, rdVars>>

\* ------------------------------------------------ createRateLimitedTasks
\* for (let i = 0; i < items.length; i += batchSize)
\*   batches.push(items.slice(i, i + batchSize));          (i is 0-based)
RECURSIVE SliceLoopMutant(_, _, _)
RECURSIVE SliceLoop(_, _, _)
SliceLoopMutant(list, size, i) ==
  IF i + size <= Len(list)
    THEN <<SubSeq(list, i + 1, i + size)>> \o SliceLoopMutant(list, size, i + size)
    ELSE <<>>
SliceLoop(list, size, i) ==
  IF i < Len(list)
    THEN <<SubSeq(list, i + 1, Min(i + size, Len(list)))>> \o SliceLoop(list, size, i + size)
    ELSE <<>>

\* The items argument: n items, told apart by their position in the list.
NumberedItems(n) == [i \in 1..n |-> Raw(i)]

\* options.delay: not given, 0, or a positive number of milliseconds.
DelayOptions ==
  {[given |-> FALSE, ms |-> 0], [given |-> TRUE, ms |-> 0], [given |-> TRUE, ms |-> 50]}

RateConfigs(sizes) ==
  {[op |-> "rateLimited", exitOnError |-> e, ctorConcurrency |-> c.ctor,
    optConcurrency |-> c.opt, hasCallback |-> cb, hasExtract |-> FALSE,
    batchSize |-> b, delay |-> d] :
     e \in BOOLEAN, c \in ConcurrencyChoices, cb \in BOOLEAN, b \in sizes,
     d \in DelayOptions}

RateFresh ==
  /\ hung = 0
  /\ rlPc = "called"
  /\ batches = <<>>
  /\ batchIndex = 0
  /\ allResults = <<>>
  /\ allPushedBy = <<>>
  /\ pauses = 0
  /\ elapsed = 0
  /\ batchStarts = <<>>
  /\ pc = "idle"
  /\ scanItems = <<>>
  /\ scanState = <<>>
  /\ items = <<>>
  /\ taskState = <<>>
  /\ fnLog = <<>>
  /\ PoolFresh

\* createRateLimitedTasks(items, processFunction, options) has been called.
InitRateLimited ==
  /\ cfg \in RateConfigs(0..MaxBatch)
  /\ rlItems \in {NumberedItems(n) : n \in 0..MaxRateItems}
  /\ RateFresh
  /\ SumIdle
  /\ JobsIdle /\ SyncIdle /\ RedactIdle

\* The same call, for the split alone: longer lists and larger batch sizes.
InitChunks ==
  /\ cfg \in {c \in RateConfigs(0..MaxChunkSize) :
                /\ ~c.exitOnError /\ ~c.hasCallback /\ ~c.delay.given
                /\ c.ctorConcurrency = 0 /\ c.optConcurrency = 0}
  /\ rlItems \in {NumberedItems(n) : n \in 0..MaxChunkItems}
  /\ RateFresh
  /\ SumIdle
  /\ JobsIdle /\ SyncIdle /\ RedactIdle

\* The tasks of the pool that have not ended.
Unsettled(states) == {i \in DOMAIN states : states[i] \in {"pending", "running"}}

\* The loop test batchIndex < batches.length with batchIndex = k: if it holds,
\* this.createProcessTasks(batch, ...) is called for batches[k] up to its
\* await; otherwise the function returns { processResults: allResults }.
EnterLoop(bs, k, fired) ==
  /\ batchIndex' = k
  /\ IF k < Len(bs)
       THEN /\ rlPc' = "batch"
            /\ batchStarts' = Append(batchStarts,
                 [batchIndex |-> k,
                  unsettled |-> Cardinality(Unsettled(taskState)),
                  pauses |-> pauses,
                  elapsed |-> fired])
            /\ pc' = "process"
            /\ items' = bs[k + 1]
            /\ taskState' = AllPending(bs[k + 1])
            /\ fnLog' = NoCalls(bs[k + 1])
            /\ raised' = Undefined
            /\ returned' = [scanResults |-> UndefinedObject,
                            processResults |-> UndefinedArray]
            /\ processResults' = UndefinedArray
            /\ pushedBy' = <<>>
            /\ poolStopped' = FALSE
       ELSE /\ rlPc' = "resolved"
            /\ UNCHANGED <<batchStarts, pc, items, taskState, fnLog, raised, returned,
                           processResults, pushedBy, poolStopped>>

\* The call up to its first await: the batches are built and the loop entered.
RateLimitedCall ==
  /\ rlPc = "called"
  /\ batches' = SliceLoop(rlItems, batchSize(cfg), 0)
  /\ EnterLoop(batches', 0, elapsed)
  /\ UNCHANGED <<cfg, hung, scanItems, scanState, scanResults, cbCalls, sumVars, jpVars, syVars, rdVars, rlItems,
                 allResults, allPushedBy, pauses, elapsed>>

\* await this.createProcessTasks(...) has resolved.
BatchSettledMutant == pc \in {"process", "resolved"}
BatchSettled == pc = "resolved"

\* batchIndex < batches.length - 1
MoreBatchesFollowMutant(k, bs) == k < Len(bs)
MoreBatchesFollow(k, bs) == k < Len(bs) - 1

\* batchContext.processResults || []
BatchResults(ctx) == IF ctx.processResults.defined THEN ctx.processResults.list ELSE <<>>

\* The position in rlItems of the i-th item of the batch under way.
PositionInList(i) == batchIndex * batchSize(cfg) + i

\* The batch under way has resolved: its results are appended, and either the
\* inter-batch timer is set or the loop goes on.
BatchDone ==
  /\ rlPc = "batch"
  /\ BatchSettled
  /\ allResults' = allResults \o BatchResults(returned)
  /\ allPushedBy' = allPushedBy \o
       [p \in 1..Len(BatchResults(returned)) |-> PositionInList(pushedBy[p])]
  /\ IF MoreBatchesFollow(batchIndex, batches) /\ delayBetweenBatches(cfg) > 0
       THEN /\ rlPc' = "sleep"
            /\ pauses' = pauses + 1
            /\ UNCHANGED <<batchIndex, batchStarts, pc, items, taskState, fnLog, raised,
                           returned, processResults, pushedBy, poolStopped>>
       ELSE /\ EnterLoop(batches, batchIndex + 1, elapsed)
            /\ UNCHANGED pauses
  /\ UNCHANGED <<cfg, hung, scanItems, scanState, scanResults, cbCalls, sumVars, jpVars, syVars, rdVars, rlItems,
                 batches, elapsed>>

\* await this.createProcessTasks(...) has rejected (exitOnError): the
\* rejection leaves the loop and createRateLimitedTasks rejects with it.
BatchRejected ==
  /\ rlPc = "batch"
  /\ pc = "rejected"
  /\ rlPc' = "rejected"
  /\ UNCHANGED <<poolVars, sumVars, jpVars, syVars, rdVars, rlItems, batches, batchIndex, allResults,
                 allPushedBy, pauses, elapsed, batchStarts>>

\* The inter-batch timer fires: the loop goes on with the next batch.
DelayElapsed ==
  /\ rlPc = "sleep"
  /\ elapsed' = elapsed + 1
  /\ EnterLoop(batches, batchIndex + 1, elapsed + 1)
  /\ UNCHANGED <<cfg, hung, scanItems, scanState, scanResults, cbCalls, sumVars, jpVars, syVars, rdVars, rlItems,
                 batches, allResults, allPushedBy, pauses>>

\* ------------------------------------- runParallel / runParallelSyncs
\* The promise runOne(configs[j]) returned, and the value it is fulfilled with.
Promise(j) == [kind |-> "promise", job |-> j]
ValueOf(j) == [kind |-> "value", job |-> j]

\* arr.indexOf(x), 0-based, -1 when no element is x.
IndexOf(arr, x) ==
  IF \E p \in DOMAIN arr : arr[p] = x
    THEN (CHOOSE p \in DOMAIN arr : arr[p] = x /\ \A q \in 1..(p - 1) : arr[q] # x) - 1
    ELSE -1

\* arr.splice(index, 1); a negative index counts back from the end.
Splice1(arr, index) ==
  LET len == Len(arr)
      start == IF index < 0 THEN Max(len + index, 0) ELSE Min(index, len)
  IN IF start < len
       THEN SubSeq(arr, 1, start) \o SubSeq(arr, start + 2, len)
       ELSE arr

\* runOne returns before spawning anything for a skipped row and in dry-run
\* mode: the promise it returns is fulfilled from the start.
SettlesAtOnce(row, dry) == row = "skip" \/ dry

\* The job of the first promise of arr, in array order, that is settled; 0 if
\* none is.  Promise.race(arr) resolves with that promise's value.
FirstSettled(arr, states) ==
  IF \E p \in DOMAIN arr : states[arr[p].job] = "settled"
    THEN arr[CHOOSE p \in DOMAIN arr :
               /\ states[arr[p].job] = "settled"
               /\ \A q \in 1..(p - 1) : states[arr[q].job] # "settled"].job
    ELSE 0

\* const completed = await Promise.race(running), fulfilled by job w;
\* const index = running.indexOf(completed); running.splice(index, 1);
\* results.push(await completed);
AfterRace(st, w) ==
  [st EXCEPT !.running = Splice1(st.running, IndexOf(st.running, ValueOf(w))),
             !.results = Append(st.results, ValueOf(w))]

\* runParallel from the head of its for loop on, up to the await that
\* suspends it or to its return.  st holds pc, i, running, results, jobState
\* and startOrder.
RECURSIVE RunOn(_)
RunOn(st) ==
  IF st.i < Len(configs)
    THEN IF Len(st.running) >= maxJobs
           THEN LET w == FirstSettled(st.running, st.jobState)
                IN IF w = 0 THEN [st EXCEPT !.pc = "race"]
                            ELSE RunOn(AfterRace(st, w))
           ELSE LET j == st.i + 1
                IN RunOn([st EXCEPT
                     !.i = st.i + 1,
                     !.running = Append(st.running, Promise(j)),
                     !.jobState = [st.jobState EXCEPT ![j] =
                                     IF SettlesAtOnce(configs[j], dryRun)
                                       THEN "settled" ELSE "inFlight"],
                     !.startOrder = Append(st.startOrder, j)])
    ELSE IF \A p \in DOMAIN st.running : st.jobState[st.running[p].job] = "settled"
           THEN [st EXCEPT
                   !.pc = "resolved",
                   !.results = st.results \o
                               [p \in DOMAIN st.running |-> ValueOf(st.running[p].job)]]
           ELSE [st EXCEPT !.pc = "all"]

JobPoolState ==
  [pc |-> jpPc, i |-> loopIndex, running |-> running, results |-> results,
   jobState |-> jobState, startOrder |-> startOrder]

SetJobPoolState(st) ==
  /\ jpPc' = st.pc
  /\ loopIndex' = st.i
  /\ running' = st.running
  /\ results' = st.results
  /\ jobState' = st.jobState
  /\ startOrder' = st.startOrder

\* runParallel(configs, options, maxJobs) has been called; the callers call it
\* with one config at least and maxJobs of 2 or more.
InitJobPool ==
  /\ jpPc = "called"
  /\ configs \in SeqsUpTo({"sync", "skip"}, MaxConfigs) \ {<<>>}
  /\ dryRun \in BOOLEAN
  /\ maxJobs \in 2..MaxJobs
  /\ loopIndex = 0
  /\ running = <<>>
  /\ results = <<>>
  /\ jobState = [j \in DOMAIN configs |-> "unstarted"]
  /\ startOrder = <<>>
  /\ PoolIdle
  /\ SumIdle
  /\ RateIdle
  /\ SyncIdle
  /\ RedactIdle

\* The call runs up to its first suspension.
RunParallelCall ==
  /\ jpPc = "called"
  /\ SetJobPoolState(RunOn(JobPoolState))
  /\ UNCHANGED <<configs, dryRun, maxJobs, poolVars, sumVars, rlVars, syVars, rdVars>>

\* The child process of job j closes or fails to spawn: its promise is
\* fulfilled, and runParallel, if it is suspended, looks at its promises again.
JobSettles(j) ==
  /\ j \in DOMAIN jobState
  /\ jobState[j] = "inFlight"
  /\ LET st == [JobPoolState EXCEPT !.jobState = [jobState EXCEPT ![j] = "settled"]]
     IN SetJobPoolState(IF jpPc \in {"race", "all"} THEN RunOn(st) ELSE st)
  /\ UNCHANGED <<configs, dryRun, maxJobs, poolVars, sumVars, rlVars, syVars, rdVars>>

\* ------------------------------------------------------ ImapService.sync
\* const jobs = parseInt(options.jobs) || 1
jobs == IF options.jobs # 0 THEN options.jobs ELSE 1

\* concurrent: jobs > 1 ? jobs : false
ListrConcurrentMutant == Len(syncTasks)
ListrConcurrent == IF jobs > 1 THEN jobs ELSE 1

\* exitOnError: false
ExitOnErrorOptionMutant == TRUE
ExitOnErrorOption == FALSE

\* if (!shost || shost.startsWith('#')) return null
IsSkippedRow(row) == row = "skip"

\* configs.map(config => this.createSyncTask(...)).filter(task => task !== null)
TasksOf(cfgs) ==
  SelectSeq([i \in DOMAIN cfgs |-> i], LAMBDA i : ~IsSkippedRow(cfgs[i]))

\* return { successful: 0, failed: 0, skipped: configs.length, dryRun: 0,
\*          total: configs.length }
AllSkippedSummary(cfgs) ==
  [defined |-> TRUE, successful |-> 0, failed |-> 0, skipped |-> Len(cfgs),
   dryRun |-> 0, total |-> Len(cfgs)]

\* ImapService.generateSummary(syncResults, options, totalTasks)
ImapGenerateSummary(res, totalTasks) ==
  [defined |-> TRUE, successful |-> res.successful, failed |-> res.failed,
   skipped |-> 0, dryRun |-> res.dryRun, total |-> totalTasks]

\* sync() has parsed the CSV file and the selection is made: one config at
\* least is left.
InitSync ==
  /\ syPc = "called"
  /\ selected \in SeqsUpTo({"sync", "skip"}, MaxConfigs) \ {<<>>}
  /\ options \in [dryRun : BOOLEAN, jobs : (-1)..MaxJobs]
  /\ syncTasks = <<>>
  /\ syncTaskState = <<>>
  /\ childState = <<>>
  /\ syncResults = ZeroCounters
  /\ counted = <<>>
  /\ syncSummary = NoSummary
  /\ PoolIdle
  /\ SumIdle
  /\ RateIdle
  /\ JobsIdle
  /\ RedactIdle

\* The counters are created and the task list is built; with no task left
\* sync returns at once.
SyncCall ==
  /\ syPc = "called"
  /\ LET tasks == TasksOf(selected)
     IN /\ syncTasks' = tasks
        /\ syncTaskState' = [t \in DOMAIN tasks |-> "pending"]
        /\ childState' = [t \in DOMAIN tasks |-> "none"]
        /\ counted' = [t \in DOMAIN tasks |-> <<>>]
        /\ IF Len(tasks) = 0
             THEN /\ syPc' = "returned"
                  /\ syncSummary' = AllSkippedSummary(selected)
             ELSE /\ syPc' = "running"
                  /\ UNCHANGED syncSummary
  /\ UNCHANGED <<selected, options, syncResults, poolVars, sumVars, rlVars, jpVars, rdVars>>

SyncTasksRunning == {t \in DOMAIN syncTaskState : syncTaskState[t] = "running"}

SyncTasksRejected == {t \in DOMAIN syncTaskState : syncTaskState[t] = "rejected"}

SyncTasksSettled ==
  \A t \in DOMAIN syncTaskState : syncTaskState[t] \in {"resolved", "rejected"}

\* With exitOnError the list stops at the first task that fails.
ListrStopped == ExitOnErrorOption /\ SyncTasksRejected # {}

\* Listr starts the tasks in list order, ListrConcurrent at a time.  The task
\* builds its command and spawns the child process, in dry-run mode too.
StartSyncTask(t) ==
  /\ syPc = "running"
  /\ ~ListrStopped
  /\ syncTaskState[t] = "pending"
  /\ \A u \in 1..(t - 1) : syncTaskState[u] # "pending"
  /\ Cardinality(SyncTasksRunning) < ListrConcurrent
  /\ syncTaskState' = [syncTaskState EXCEPT ![t] = "running"]
  /\ childState' = [childState EXCEPT ![t] = "spawned"]
  /\ UNCHANGED <<syPc, selected, options, syncTasks, syncResults, counted, syncSummary,
                 poolVars, sumVars, rlVars, jpVars, rdVars>>

\* resolve(...) or reject(...) of the task's promise: only the first call
\* settles it.
Settle(t, outcome) ==
  syncTaskState' = [syncTaskState EXCEPT ![t] = IF @ = "running" THEN outcome ELSE @]

\* syncResults.<counter>++ by a handler of task t
Increment(t, counter) ==
  /\ syncResults' = [syncResults EXCEPT ![counter] = @ + 1]
  /\ counted' = [counted EXCEPT ![t] = Append(@, counter)]

\* child.on('close', (code) => ...)
OnClose(t, code) ==
  IF code = 0
    THEN /\ Increment(t, IF options.dryRun THEN "dryRun" ELSE "successful")
         /\ Settle(t, "resolved")
    ELSE /\ Increment(t, "failed")
         /\ Settle(t, "rejected")

\* child.on('error', (error) => ...)
OnError(t) ==
  /\ Increment(t, "failed")
  /\ Settle(t, "rejected")

\* The exit codes 'close' reports: 0, a failure, or the negative errno of a
\* child that could not be spawned.
ExitCodes == {0, 1, -2}

\* The child of task t emits 'close': with its exit code when it ran, with the
\* negative errno after the 'error' of a failed spawn.
ChildClose(t, code) ==
  /\ t \in DOMAIN childState
  /\ \/ childState[t] = "spawned" /\ code >= 0
     \/ childState[t] = "errored" /\ code < 0
  /\ childState' = [childState EXCEPT ![t] = "closed"]
  /\ OnClose(t, code)
  /\ UNCHANGED <<syPc, selected, options, syncTasks, syncSummary,
                 poolVars, sumVars, rlVars, jpVars, rdVars>>

\* The child of task t could not be spawned: it emits 'error'.
ChildError(t) ==
  /\ t \in DOMAIN childState
  /\ childState[t] = "spawned"
  /\ childState' = [childState EXCEPT ![t] = "errored"]
  /\ OnError(t)
  /\ UNCHANGED <<syPc, selected, options, syncTasks, syncSummary,
                 poolVars, sumVars, rlVars, jpVars, rdVars>>

\* taskList.run() is over, resolved or caught; sync returns the summary.
SyncRunDone ==
  /\ syPc = "running"
  /\ SyncTasksSettled \/ ListrStopped
  /\ syPc' = "returned"
  /\ syncSummary' = ImapGenerateSummary(syncResults, Len(syncTasks))
  /\ UNCHANGED <<selected, options, syncTasks, syncTaskState, childState, syncResults,
                 counted, poolVars, sumVars, rlVars, jpVars, rdVars>>

NextSync ==
  \/ SyncCall
  \/ \E t \in DOMAIN syncTaskState : StartSyncTask(t)
  \/ \E t \in DOMAIN childState, code \in ExitCodes : ChildClose(t, code)
  \/ \E t \in DOMAIN childState : ChildError(t)
  \/ SyncRunDone

\* ---------------------------- ImapService.createSyncTask: display and spawn
Redacted == "***REDACTED***"

\* The loop of redactPasswords from index i (1-based) on, over its copy.
RECURSIVE RedactFrom(_, _)
RedactFrom(redactedArgs, i) ==
  IF i > Len(redactedArgs) THEN redactedArgs
  ELSE IF redactedArgs[i] \in {"--password1", "--password2"} /\ i + 1 <= Len(redactedArgs)
    THEN RedactFrom([redactedArgs EXCEPT ![i + 1] = Redacted], i + 1)
    ELSE RedactFrom(redactedArgs, i + 1)

\* ImapService.redactPasswords(args): works on a copy, [...args].
redactPasswords(args) == RedactFrom(args, 1)

\* ImapService.buildImapsyncArgs(config, options), without the optional port,
\* ssl, auth and COMMON_OPTS flags; the log file is named after the users.
buildImapsyncArgs(config, opts) ==
  <<"--host1", config.src_host, "--user1", config.src_user,
    "--password1", config.src_pass, "--host2", config.dst_host,
    "--user2", config.dst_user, "--password2", config.dst_pass,
    "--nolog", "--useuid", "--maxsize", "100000000">>
    \o (IF opts.dryRun THEN <<"--dry">> ELSE <<>>)
    \o <<"--logfile", "log">>

\* command and args as the task chooses them for docker or a local imapsync.
CommandLine(config, opts) ==
  IF opts.docker
    THEN <<"docker", "run", "--rm", "-e", "IMAPSYNC_DEBUG=0", "gilleslamiral/imapsync",
           "imapsync">> \o buildImapsyncArgs(config, opts)
    ELSE <<"imapsync">> \o buildImapsyncArgs(config, opts)

\* `${commandText}${command} ${redactedArgs.join(' ')}`, word by word.
DisplayedCommand(config, opts) ==
  LET line == CommandLine(config, opts)
  IN <<IF opts.dryRun THEN "DRY RUN - Executing: " ELSE "Running: ", Head(line)>>
       \o redactPasswords(Tail(line))

\* The values the fields of a CSV row take: passwords, and host and user names,
\* which are free text.
Passwords == {"secret1", "secret2"}
FieldValues == {"name", "--password1", "--password2"}

\* A sync task starts for a row that is not skipped.
InitRedact ==
  /\ rdPc = "task"
  /\ rdConfig \in [src_host : {"name"}, src_user : FieldValues, src_pass : Passwords,
                    dst_host : FieldValues, dst_user : FieldValues, dst_pass : Passwords]
  /\ rdOptions \in [docker : BOOLEAN, debug : BOOLEAN, dryRun : BOOLEAN]
  /\ taskOutput = <<>>
  /\ spawnCall = <<>>
  /\ PoolIdle
  /\ SumIdle
  /\ RateIdle
  /\ JobsIdle
  /\ SyncIdle

\* The promise executor of the task: the command is built, shown in debug or
\* dry-run mode, and spawned.
TaskSpawns ==
  /\ rdPc = "task"
  /\ rdPc' = "spawned"
  /\ taskOutput' = IF rdOptions.debug \/ rdOptions.dryRun
                     THEN DisplayedCommand(rdConfig, rdOptions) ELSE <<>>
  /\ spawnCall' = CommandLine(rdConfig, rdOptions)
  /\ UNCHANGED <<rdConfig, rdOptions, poolVars, sumVars, rlVars, jpVars, syVars>>

NextRedact == TaskSpawns

vars == <<sumInput, sumPc, summary, poolVars, rlVars, jpVars, syVars, rdVars>>

SpecRedact == InitRedact /\ [][NextRedact]_vars

SpecSync == InitSync /\ [][NextSync]_vars

\* The scan pool at work.
ScanStep ==
  \/ \E i \in DOMAIN scanState : StartScan(i)
  \/ \E i \in DOMAIN scanState, v \in ScanValues : ScanResolve(i, v)
  \/ \E i \in DOMAIN scanState, m \in ScanMessages : ScanReject(i, m)

\* The process pool at work.
ProcessStep ==
  \/ \E i \in DOMAIN taskState : StartProcess(i)
  \/ \E i \in DOMAIN taskState, r \in ProcValues, cbThrows \in BOOLEAN :
        ProcessResolve(i, r, cbThrows)
  \/ \E i \in DOMAIN taskState, m \in ProcMessages : ProcessReject(i, m)

\* Direct calls of createProcessTasks and of createScanTasks.
Next ==
  \/ ScanStep
  \/ ScanPoolDone
  \/ ProcessStep
  \/ ProcessPoolDone

Spec == Init /\ [][Next]_vars

\* Calls of createScanAndProcessWorkflow.
NextWorkflow ==
  \/ ScanStep
  \/ ScanPhaseDone
  \/ ProcessStep
  \/ ProcessPoolDone

SpecWorkflow == InitWorkflow /\ [][NextWorkflow]_vars

\* Calls of createRateLimitedTasks.
NextRateLimited ==
  \/ RateLimitedCall
  \/ ProcessStep
  \/ ProcessPoolDone
  \/ BatchDone
  \/ BatchRejected
  \/ DelayElapsed

SpecRateLimited == InitRateLimited /\ [][NextRateLimited]_vars

\* Calls of createRateLimitedTasks, followed up to the first await.
NextChunks == RateLimitedCall

SpecChunks == InitChunks /\ [][NextChunks]_vars

\* Calls of runParallel / runParallelSyncs.
NextJobPool ==
  \/ RunParallelCall
  \/ \E j \in DOMAIN jobState : JobSettles(j)

SpecJobPool == InitJobPool /\ [][NextJobPool]_vars

\* createProcessTasks called.
InitDispatchListr == ProcessInit /\ hung = 0 /\ SumIdle /\ RateIdle /\ JobsIdle /\ SyncIdle /\ RedactIdle

InitDispatch == InitDispatchListr \/ InitJobPool

\* Calls of either pool: createProcessTasks or runParallel.
NextDispatch ==
  \/ ProcessStep
  \/ ProcessPoolDone
  \/ NextJobPool

SpecDispatch == InitDispatch /\ [][NextDispatch]_vars

\* createProcessTasks called; the processFunction invocation of at most one
\* item never settles.
InitHung ==
  /\ ProcessInit
  /\ hung \in 0..Len(items)
  /\ SumIdle
  /\ RateIdle
  /\ JobsIdle /\ SyncIdle /\ RedactIdle

NextHung ==
  \/ ProcessStep
  \/ ProcessPoolDone

\* The event loop runs whatever is ready to run: a task the pool can start is
\* started, an invocation that is to settle settles, a run that can end ends.
SpecHung == InitHung /\ [][NextHung]_vars /\ WF_vars(NextHung)

\* createScanAndProcessWorkflow called with an extractItemsFunction and without
\* a progress callback.
InitWorkflowExtract ==
  /\ InitWorkflow
  /\ cfg.hasExtract
  /\ ~cfg.hasCallback

SpecWorkflowExtract == InitWorkflowExtract /\ [][NextWorkflow]_vars

\* ------------------------------------- CpanelReset.run / CpanelCreate.run
\* How emailService.resetPassword (createAccount) ends for one email:
\* it returns true, returns false, or throws an Error with a message.
ApiOutcomes ==
  {[kind |-> "true", message |-> Undefined], [kind |-> "false", message |-> Undefined]}
    \cup {[kind |-> "throws", message |-> m] : m \in {"boom", ""}}

\* The record resetPasswordForEmail (createEmailAccount) returns: it has a
\* resetStatus (createStatus), an error only from the catch block, and no
\* status property.
resetPasswordForEmail(outcome) ==
  [status |-> Undefined,
   error |-> IF outcome.kind = "throws" THEN outcome.message ELSE Undefined,
   resetStatus |-> IF outcome.kind = "true" THEN "SUCCESS" ELSE "FAILED"]

\* The command has its emails and starts processing them.
InitCallSite ==
  /\ sumInput = [isArray |-> TRUE, recs |-> <<>>]
  /\ sumPc = "collect"
  /\ summary = ZeroSummary
  /\ PoolIdle
  /\ RateIdle
  /\ JobsIdle
  /\ SyncIdle
  /\ RedactIdle

\* One more email is processed and its record joins the results.
EmailProcessed(outcome) ==
  /\ sumPc = "collect"
  /\ Len(sumInput.recs) < MaxRecords
  /\ sumInput' = [sumInput EXCEPT !.recs = Append(@, resetPasswordForEmail(outcome))]
  /\ UNCHANGED <<sumPc, summary, poolVars, rlVars, jpVars, syVars, rdVars>>

\* const results = workflowResults.processResults || []; the command goes on
\* to parallelService.generateSummary(results, ...).
ResultsCollected ==
  /\ sumPc = "collect"
  /\ sumPc' = "call"
  /\ UNCHANGED <<sumInput, summary, poolVars, rlVars, jpVars, syVars, rdVars>>

NextCallSite ==
  \/ \E outcome \in ApiOutcomes : EmailProcessed(outcome)
  \/ ResultsCollected
  \/ GenerateSummary

SpecCallSite == InitCallSite /\ [][NextCallSite]_vars

SummaryNext == GenerateSummary

InitSummary == SumInit /\ PoolIdle /\ RateIdle /\ JobsIdle /\ SyncIdle /\ RedactIdle

\* Calls of generateSummary.
SpecSummary == InitSummary /\ [][SummaryNext]_vars

\* ================================================================ claims
\* The positions of processResults that the task of items[i] pushed.
PositionsOf(i) == {p \in DOMAIN pushedBy : pushedBy[p] = i}

\* C1: when createProcessTasks resolves (exitOnError false), ctx.processResults
\* holds exactly N outcomes, exactly one per input item.
C1_Completeness ==
  (pc = "resolved" /\ ~cfg.exitOnError) =>
    /\ Len(processResults.list) = Len(items)
    /\ \A i \in DOMAIN items : Cardinality(PositionsOf(i)) = 1

\* C2: in every reachable state of the scan pool and of the process pool, the
\* number of invocations started and not yet settled is at most min(C, N).
C2_ConcurrencyBound ==
  /\ Cardinality(InFlight(scanState)) <= Min(concurrency(cfg), Len(scanItems))
  /\ Cardinality(InFlight(taskState)) <= Min(concurrency(cfg), Len(items))

\* A saturated process pool: C units in flight while a further item waits.
C2_Witness ==
  /\ concurrency(cfg) = 2
  /\ Cardinality(InFlight(taskState)) = 2
  /\ \E i \in DOMAIN taskState : taskState[i] = "pending"

\* C3: with exitOnError false, an item whose processFunction rejects yields
\* exactly one outcome, FAILED with the error's message, its failure stops
\* nothing, every item of the batch has run when the call resolves, and an
\* item whose processFunction resolved has its own result recorded first.
C3_FailureIsolation ==
  ~cfg.exitOnError =>
    /\ ~poolStopped
    /\ \A i \in DOMAIN items :
         /\ fnLog[i].kind = "rejected" =>
              /\ taskState[i] = "done"
              /\ Cardinality(PositionsOf(i)) = 1
              /\ \A p \in PositionsOf(i) :
                   processResults.list[p] = FailedRecord(items[i], fnLog[i].error)
         /\ fnLog[i].kind = "resolved" =>
              \E p \in PositionsOf(i) :
                /\ processResults.list[p] = ResultRecord(fnLog[i])
                /\ \A q \in PositionsOf(i) : p <= q
    /\ pc = "resolved" => \A i \in DOMAIN items : fnLog[i].kind # "none"

\* A resolved batch in which an item failed and an item started after it
\* succeeded.
C3_Witness ==
  /\ ~cfg.exitOnError
  /\ pc = "resolved"
  /\ cfg.op = "process"
  /\ \E i, j \in DOMAIN items :
       /\ i < j
       /\ fnLog[i].kind = "rejected"
       /\ fnLog[j].kind = "resolved"
       /\ \E p \in PositionsOf(i), q \in PositionsOf(j) : p < q

\* C4: the result sequence is aligned with the input by index:
\* processResults[i] is the outcome of items[i] for every i.
C4_InputOrderAlignment ==
  pc = "resolved" =>
    \A i \in DOMAIN items : i \in DOMAIN pushedBy /\ pushedBy[i] = i

\* The scan result stored for scanItems[i] (scan items are distinct).
ScanResultOf(i) ==
  LET at == CHOOSE p \in DOMAIN scanResults.entries :
              scanResults.entries[p].key = scanItems[i]
  IN scanResults.entries[at].val

RECURSIVE SumOver(_, _)
SumOver(f, S) ==
  IF S = {} THEN 0 ELSE LET x == CHOOSE y \in S : TRUE IN f[x] + SumOver(f, S \ {x})

\* The number of sub-items extracted from the scans that succeeded.
FoundBySuccessfulScans ==
  SumOver([i \in DOMAIN scanItems |->
             IF scanState[i] = "done"
               THEN Len(extractedItems(scanItems[i], ScanResultOf(i), cfg.hasExtract))
               ELSE 0],
          DOMAIN scanItems)

\* C5: the workflow invokes processFunction exactly once for each sub-item
\* extracted from each successfully scanned item and for nothing else, and the
\* number of process outcomes is the number of those sub-items.
C5_ScanToProcessFlattening ==
  (cfg.op = "workflow" /\ pc = "resolved") =>
    /\ Len(items) = FoundBySuccessfulScans
    /\ \A i \in DOMAIN items : fnLog[i].kind # "none"
    /\ Len(returned.processResults.list) = FoundBySuccessfulScans

\* C6: a scan item whose scanFunction rejects, whatever the message, is recorded
\* as failed and contributes no process item, and does not make the workflow
\* fail.
C6_ScanFailureIsolation ==
  /\ \A i \in DOMAIN scanItems :
       scanState[i] = "skipped" => ScanResultOf(i).kind = "errorObject"
  /\ \A k \in DOMAIN items : items[k].kind # "errorObject"

\* C7: createProcessTasks over no items and the workflow over no scan items
\* complete without raising an error and without invoking a callback; the
\* workflow returns an empty scanResults mapping and processResults = [].
C7_EmptyInput ==
  /\ (cfg.op = "process" /\ items = <<>>) =>
       (pc # "rejected" /\ cbCalls = <<>> /\ pushedBy = <<>>)
  /\ (cfg.op = "workflow" /\ scanItems = <<>>) =>
       /\ pc # "rejected"
       /\ cbCalls = <<>> /\ pushedBy = <<>>
       /\ pc = "resolved" =>
            /\ returned.scanResults.entries = <<>>
            /\ returned.processResults = EmptyArray

\* The indices of the records of the summarised array that satisfy P.
Count(P(_)) == Cardinality({i \in DOMAIN sumInput.recs : P(sumInput.recs[i])})

HasStatus(r) == Truthy(r.status)
HasError(r) == Truthy(r.error)
RuleSuccessful(r) == r.status = "SUCCESS" \/ (~HasStatus(r) /\ ~HasError(r))
RuleFailed(r) == r.status = "FAILED" \/ HasError(r)

\* C8: for an array, total is the number of records, successful the number of
\* records with status SUCCESS or with neither a status nor an error, failed
\* the number with status FAILED or an error, skipped the rest, and the three
\* counts add up to total; for a non-array all four counts are 0.
C8_SummaryRule ==
  sumPc = "returned" =>
    IF sumInput.isArray
      THEN /\ summary.total = Len(sumInput.recs)
           /\ summary.successful = Count(RuleSuccessful)
           /\ summary.failed = Count(RuleFailed)
           /\ summary.skipped = summary.total - summary.successful - summary.failed
           /\ summary.successful + summary.failed + summary.skipped = summary.total
      ELSE summary = ZeroSummary

\* A summary of a record with neither status nor error and of a record that
\* only carries an error.
C8_Witness ==
  /\ sumPc = "returned"
  /\ sumInput.isArray
  /\ Len(sumInput.recs) = 2
  /\ \E i \in DOMAIN sumInput.recs :
       ~HasStatus(sumInput.recs[i]) /\ ~HasError(sumInput.recs[i])
  /\ \E i \in DOMAIN sumInput.recs :
       ~HasStatus(sumInput.recs[i]) /\ HasError(sumInput.recs[i])
  /\ summary.successful = 1
  /\ summary.failed = 1

\* C9: no record is counted both as successful and as failed:
\* successful + failed <= total and 0 <= skipped <= total.
C9_NoDoubleCounting ==
  (sumPc = "returned" /\ sumInput.isArray) =>
    /\ summary.successful + summary.failed <= summary.total
    /\ 0 <= summary.skipped
    /\ summary.skipped <= summary.total

ExplicitStatuses == {"SUCCESS", "FAILED", "SKIPPED"}

IsOutcome(r) == r.status \in ExplicitStatuses /\ (HasError(r) => r.status = "FAILED")
IsSkippedOutcome(r) == r.status = "SKIPPED"

CeilDiv(n, size) == (n + size - 1) \div size

RECURSIVE Concat(_)
Concat(seqs) == IF seqs = <<>> THEN <<>> ELSE Head(seqs) \o Concat(Tail(seqs))

\* C11 Chunk partition: once createRateLimitedTasks has split its N items,
\* there are ceil(N / batchSize) chunks, every chunk but the last has exactly
\* batchSize items, the last has between 1 and batchSize items, and the
\* chunks concatenated in order are the input list.
C11_ChunkPartition ==
  rlPc \notin {"idle", "called"} =>
    LET K == Len(batches)
        size == batchSize(cfg)
    IN /\ K = CeilDiv(Len(rlItems), size)
       /\ \A k \in 1..(K - 1) : Len(batches[k]) = size
       /\ K > 0 => Len(batches[K]) \in 1..size
       /\ Concat(batches) = rlItems

\* 25 items at batch size 10 have been split into chunks of 10, 10 and 5.
C11_Witness ==
  /\ rlPc \notin {"idle", "called"}
  /\ Len(rlItems) = 25
  /\ batchSize(cfg) = 10
  /\ [k \in DOMAIN batches |-> Len(batches[k])] = <<10, 10, 5>>

\* C12 Inter-batch delay count: a call of createRateLimitedTasks that makes K
\* chunks sets the inter-batch timer once after each chunk but the last: while
\* chunk k (0-based) runs it has been set k times, it is never set after the
\* final chunk nor for an empty list, and when the call resolves it has been
\* set, and has fired, exactly max(K - 1, 0) times.
C12_DelayCount ==
  LET K == Len(batches)
  IN /\ rlPc \in {"batch", "rejected"} => pauses = batchIndex
     /\ rlPc = "sleep" => pauses = batchIndex + 1 /\ batchIndex + 1 < K
     /\ rlPc = "resolved" => pauses = Max(K - 1, 0) /\ elapsed = pauses
     /\ pauses <= Max(K - 1, 0)
     /\ elapsed <= pauses

\* A call over three chunks has resolved after two pauses.
C12_Witness ==
  /\ rlPc = "resolved"
  /\ Len(batches) = 3
  /\ pauses = 2
  /\ elapsed = 2

\* C13 Chunk sequencing: createRateLimitedTasks hands its chunks to
\* createProcessTasks in input order, and at the moment it hands over chunk
\* k+1 every task of chunk k has settled and the pause that follows chunk k
\* has been set and has elapsed; no processFunction invocation is pending or
\* in flight during a pause, and the tasks of the pool are those of the chunk
\* at batchIndex.
C13_ChunkSequencing ==
  /\ \A n \in DOMAIN batchStarts :
       /\ batchStarts[n].batchIndex = n - 1
       /\ batchStarts[n].unsettled = 0
       /\ batchStarts[n].pauses = n - 1
       /\ batchStarts[n].elapsed = n - 1
  /\ rlPc = "sleep" => Unsettled(taskState) = {}
  /\ rlPc \in {"batch", "rejected"} =>
       /\ Len(batchStarts) = batchIndex + 1
       /\ items = batches[batchIndex + 1]

\* A processFunction invocation for the second chunk is in flight.
C13_Witness ==
  /\ rlPc = "batch"
  /\ batchIndex = 1
  /\ InFlight(taskState) # {}
  /\ pauses = 1

\* The chunk (0-based) that the item at position i of rlItems belongs to.
ChunkOf(i) == (i - 1) \div batchSize(cfg)

\* The positions of allResults that the item at position i of rlItems pushed.
AggregatePositionsOf(i) == {p \in DOMAIN allPushedBy : allPushedBy[p] = i}

\* C14 Chunked aggregate: when createRateLimitedTasks resolves over N items
\* with exitOnError false, allResults holds exactly N outcomes, one per input
\* item, and every outcome of a chunk precedes every outcome of a later chunk.
C14_ChunkedAggregate ==
  (rlPc = "resolved" /\ ~cfg.exitOnError) =>
    /\ Len(allResults) = Len(rlItems)
    /\ \A i \in DOMAIN rlItems : Cardinality(AggregatePositionsOf(i)) = 1
    /\ \A p, q \in DOMAIN allPushedBy :
         p < q => ChunkOf(allPushedBy[p]) <= ChunkOf(allPushedBy[q])

\* The same, for calls whose progress callback, if any, never throws.
C14_WithoutThrowingObserver ==
  (\A n \in DOMAIN cbCalls : ~cbCalls[n].threw) => C14_ChunkedAggregate

\* options.concurrency || this.defaultConcurrency, as the caller requested it.
RequestedConcurrency ==
  IF cfg.optConcurrency # 0 THEN cfg.optConcurrency ELSE defaultConcurrency(cfg)

\* C15 Chunked concurrency clamp: during a call of createRateLimitedTasks the
\* processFunction invocations in flight never number more than
\* min(concurrency, batchSize), whatever concurrency and batchSize were asked.
C15_ConcurrencyClamp ==
  rlPc # "idle" =>
    Cardinality(InFlight(taskState)) <= Min(RequestedConcurrency, batchSize(cfg))

\* Concurrency 3 was asked with batch size 2, and two invocations are in flight.
C15_Witness ==
  /\ rlPc = "batch"
  /\ RequestedConcurrency = 3
  /\ batchSize(cfg) = 2
  /\ Cardinality(InFlight(taskState)) = 2

\* ------------------------------------------------------ createProcessTasks
\* Whether the progress callback threw when called for the task of items[i].
ObserverThrewFor(i) == \E n \in DOMAIN cbCalls : cbCalls[n].task = i /\ cbCalls[n].threw

\* What the task body of items[i], run on its own, pushes to processResults,
\* given how processFunction and the progress callback behaved for that item.
OutcomesOfItem(i) ==
  IF taskState[i] \in {"pending", "running"} THEN <<>>
  ELSE IF fnLog[i].kind = "rejected" THEN <<FailedRecord(items[i], fnLog[i].error)>>
  ELSE IF ObserverThrewFor(i)
    THEN <<ResultRecord(fnLog[i]), FailedRecord(items[i], CallbackMessage)>>
    ELSE <<ResultRecord(fnLog[i])>>

\* A plain loop `for each item in order: run its task body to its end`.
RECURSIVE SequentialLoop(_)
SequentialLoop(i) ==
  IF i > Len(items) THEN <<>> ELSE OutcomesOfItem(i) \o SequentialLoop(i + 1)

\* C16 Sequential equivalence: with concurrency = 1 createProcessTasks has at
\* most one unit in flight, starts unit i+1 only once unit i has settled, and
\* its processResults is, entry for entry, what the plain sequential loop over
\* the items produces.
C16_SequentialEquivalence ==
  (cfg.op = "process" /\ concurrency(cfg) = 1) =>
    /\ Cardinality(InFlight(taskState)) <= 1
    /\ \A i \in DOMAIN taskState :
         (i > 1 /\ taskState[i] # "pending") => taskState[i - 1] \in {"done", "threw"}
    /\ processResults.list = SequentialLoop(1)

\* With concurrency 1 a run over three items, a rejected one among them, has
\* resolved.
C16_Witness ==
  /\ cfg.op = "process"
  /\ concurrency(cfg) = 1
  /\ pc = "resolved"
  /\ Len(items) = 3
  /\ \E i \in DOMAIN fnLog : fnLog[i].kind = "rejected"
  /\ \E i \in DOMAIN fnLog : fnLog[i].kind = "resolved"

\* C17 Dispatch order: whatever the concurrency, the unit of items[j] has not
\* been started while the unit of an earlier items[i], i < j, has not: in
\* createProcessTasks no started task stands behind an unstarted one, and in
\* runParallel the jobs are started in the order of configs.
C17_DispatchOrder ==
  /\ cfg.op = "process" =>
       \A i, j \in DOMAIN taskState :
         (i < j /\ taskState[j] # "pending") => taskState[i] # "pending"
  /\ jpPc # "idle" =>
       /\ \A p \in DOMAIN startOrder : startOrder[p] = p
       /\ \A j \in DOMAIN jobState :
            jobState[j] # "unstarted" <=> j <= Len(startOrder)

\* Completion order is free: a later unit has settled while an earlier one is
\* still in flight.
C17_Witness ==
  /\ cfg.op = "process"
  /\ \E i, j \in DOMAIN taskState :
       i < j /\ taskState[i] = "running" /\ taskState[j] = "done"

\* The invocations of the progress callback made for the task of items[i].
ObserverCallsFor(i) == {n \in DOMAIN cbCalls : cbCalls[n].task = i}

\* C18 Observer exactly-once: when createProcessTasks was given a progress
\* callback and has resolved, the callback has been invoked exactly once for
\* every item, whether its processFunction resolved or rejected, and every
\* item it was invoked for has its outcome in processResults.
C18_ObserverExactlyOnce ==
  (cfg.op = "process" /\ cfg.hasCallback /\ pc = "resolved") =>
    /\ \A i \in DOMAIN items : Cardinality(ObserverCallsFor(i)) = 1
    /\ \A n \in DOMAIN cbCalls : PositionsOf(cbCalls[n].task) # {}

\* The part of C18 that the code keeps: the callback is invoked at most once
\* per item, for the items whose processFunction resolved, after the push.
C18_ObserverOncePerSuccess ==
  (cfg.op = "process" /\ cfg.hasCallback) =>
    /\ \A i \in DOMAIN items :
         Cardinality(ObserverCallsFor(i)) = IF fnLog[i].kind = "resolved" THEN 1 ELSE 0
    /\ \A n \in DOMAIN cbCalls : PositionsOf(cbCalls[n].task) # {}

C20_ExitOnFirstError ==
  [][(/\ cfg.op = "process"
      /\ cfg.exitOnError
      /\ \E i \in DOMAIN fnLog : fnLog[i].kind = "rejected")
       => \A i \in DOMAIN taskState :
            /\ taskState[i] = "pending" => taskState'[i] = "pending"
            /\ taskState[i] = "running" =>
                 \/ taskState'[i] = "running"
                 \/ fnLog'[i].kind # "none" /\ PositionsOf(i)' # {}]_vars

\* After the first item rejected, the second, in flight at that moment, has
\* run to its end and recorded its result, and the third was never started.
C20_Witness ==
  /\ cfg.op = "process"
  /\ cfg.exitOnError
  /\ pc = "rejected"
  /\ Len(items) = 3
  /\ fnLog[1].kind = "rejected"
  /\ fnLog[2].kind = "resolved"
  /\ pushedBy = <<1, 2>>
  /\ taskState[3] = "pending"

\* ------------------------------------------------------------ termination
\* Every item of the process pool has an outcome in processResults and no
\* invocation is in flight.
EveryItemRecorded ==
  /\ \A i \in DOMAIN items : PositionsOf(i) # {}
  /\ InFlight(taskState) = {}

\* C21 Termination: a call of createProcessTasks, createScanAndProcessWorkflow
\* or createRateLimitedTasks whose invocations all settle ends by resolving: it
\* never ends by rejecting (a call that has rejected never resolves), and at
\* the moment it has resolved every item has a recorded outcome and no unit is
\* in flight.  Stated for exitOnError false, where no task rethrows.
C21_Termination ==
  (cfg.op \in {"process", "workflow", "rateLimited"} /\ ~cfg.exitOnError) =>
    /\ pc # "rejected"
    /\ rlPc # "rejected"
    /\ pc = "resolved" => EveryItemRecorded

\* The part of C21 that holds: with exitOnError false and every invocation
\* settling, createProcessTasks eventually resolves with every item recorded.
C21_ProcessTasksTerminate ==
  (hung = 0 /\ ~cfg.exitOnError) => <>(pc = "resolved" /\ EveryItemRecorded)

\* Every item but the hung one has been started, has settled and has its
\* outcome in processResults.
AllOthersRecorded ==
  \A i \in DOMAIN items :
    i # hung => (taskState[i] \in {"done", "threw"} /\ PositionsOf(i) # {})

\* C22 Hung unit, as stated: if exactly one unit never settles and concurrency
\* is 2 or more, every other item is eventually started and gets its outcome
\* recorded, and the run never completes; in every configuration.
C22_HungUnit ==
  (hung # 0 /\ concurrency(cfg) >= 2) =>
    (<>AllOthersRecorded /\ [](pc \notin {"resolved", "rejected"}))

\* C22, amended: the same with exitOnError false.
C22_HungUnitWithoutExitOnError ==
  (hung # 0 /\ concurrency(cfg) >= 2 /\ ~cfg.exitOnError) =>
    (<>AllOthersRecorded /\ [](pc \notin {"resolved", "rejected"}))

\* The first of three units hangs; the two others, one of which rejected, have
\* their outcomes recorded while the run goes on.
C22_Witness ==
  /\ hung = 1
  /\ Len(items) = 3
  /\ concurrency(cfg) = 2
  /\ ~cfg.exitOnError
  /\ taskState[1] = "running"
  /\ AllOthersRecorded
  /\ \E i \in DOMAIN fnLog : fnLog[i].kind = "rejected"
  /\ pc = "process"

\* ------------------------------------------- createScanAndProcessWorkflow
\* What the extraction loop makes of the scan results as they stand.
Flattened == collectItems(ObjectEntries(scanResults.entries), cfg.hasExtract, <<>>)

JobsInFlight == {j \in DOMAIN jobState : jobState[j] = "inFlight"}

\* C24 Concurrency bound of the job pool: with maxJobs >= 2, whatever the
\* number of configs and the order in which the jobs complete, the number of
\* jobs started and not yet settled never exceeds maxJobs.
C24_JobPoolBound == Cardinality(JobsInFlight) <= maxJobs

\* How many entries of results are the value of job j.
TimesReported(j) == Cardinality({p \in DOMAIN results : results[p] = ValueOf(j)})

\* C25 Exactly one result per job: the array runParallel returns over N
\* configs has N entries and holds the result of every job exactly once.
C25_OneResultPerJob ==
  jpPc = "resolved" =>
    /\ Len(results) = Len(configs)
    /\ \A j \in DOMAIN configs : TimesReported(j) = 1

\* The array returned always has one entry per config, whatever its entries.
C25_LengthOnly == jpPc = "resolved" => Len(results) = Len(configs)

\* ------------------------------------------------------ ImapService.sync
SyncTypeOK ==
  /\ syPc \in {"idle", "called", "running", "returned"}
  /\ DOMAIN syncTaskState = DOMAIN syncTasks
  /\ DOMAIN childState = DOMAIN syncTasks
  /\ DOMAIN counted = DOMAIN syncTasks

\* C26 Shared counters: every sync task changes the counters successful,
\* failed and dryRun by exactly one increment of exactly one counter, whatever
\* the interleaving of the children's 'close' and 'error' events and the
\* number of parallel jobs; so the summary sync returns has
\* successful + failed + dryRun equal to the number of tasks run.
C26_SharedCounters ==
  /\ \A t \in DOMAIN counted :
       /\ Len(counted[t]) <= 1
       /\ syncTaskState[t] \in {"resolved", "rejected"} => Len(counted[t]) = 1
  /\ (syPc = "returned" /\ syncTasks # <<>>) =>
       syncSummary.successful + syncSummary.failed + syncSummary.dryRun = Len(syncTasks)

\* C27 Sync failure isolation: when sync returns after running its task list,
\* it returns the summary; every task was started and has completed, also
\* those after a task whose child exited non-zero or could not be spawned; and
\* each such task incremented failed and no other counter, so the summary
\* counts at least as many failures as tasks failed.
C27_SyncFailureIsolation ==
  (syPc = "returned" /\ syncTasks # <<>>) =>
    /\ syncSummary.defined
    /\ syncSummary.total = Len(syncTasks)
    /\ SyncTasksSettled
    /\ \A t \in SyncTasksRejected :
         /\ counted[t] # <<>>
         /\ \A p \in DOMAIN counted[t] : counted[t][p] = "failed"
    /\ syncSummary.failed >= Cardinality(SyncTasksRejected)

\* sync has returned the summary of three tasks: the first child exited
\* non-zero, the second could not be spawned, the third synced.
C27_Witness ==
  /\ syPc = "returned"
  /\ syncTaskState = <<"rejected", "rejected", "resolved">>
  /\ childState[1] = "closed"
  /\ counted[1] = <<"failed">>
  /\ childState[2] = "errored"
  /\ counted[3] = <<"successful">>
  /\ syncSummary.failed = 2
  /\ syncSummary.successful = 1

\* The rows of the selection that createSyncTask turns down.
SkippedRows == {i \in DOMAIN selected : IsSkippedRow(selected[i])}

\* C28 No config is dropped from the sync summary: the summary sync returns
\* has successful + failed + skipped + dryRun = total, total is the number of
\* configs selected, and the rows with an empty or commented src_host are
\* counted in skipped, whether some or all rows are skipped.
C28_NoConfigDropped ==
  syPc = "returned" =>
    /\ syncSummary.successful + syncSummary.failed + syncSummary.skipped
         + syncSummary.dryRun = syncSummary.total
    /\ syncSummary.total = Len(selected)
    /\ syncSummary.skipped = Cardinality(SkippedRows)

\* When every row is skipped the summary does account for every config.
C28_AllSkipped ==
  (syPc = "returned" /\ syncTasks = <<>>) =>
    /\ syncSummary.skipped = Len(selected)
    /\ syncSummary.total = Len(selected)
    /\ syncSummary.successful + syncSummary.failed + syncSummary.dryRun = 0

\* C29 Dry run executes nothing: with options.dryRun set no child process is
\* spawned for any config.
C29_DryRunSpawnsNothing ==
  options.dryRun => \A t \in DOMAIN childState : childState[t] = "none"

\* ------------------------------------------- createScanAndProcessWorkflow
\* Some process task of the workflow was started.
ProcessPhaseBegun ==
  \/ \E i \in DOMAIN taskState : taskState[i] # "pending"
  \/ \E i \in DOMAIN fnLog : fnLog[i] # NotCalled

\* C30 Phase ordering: in a workflow no processFunction invocation starts
\* before every scanFunction invocation has settled, and the list of process
\* items is the one extracted from the complete scan results: it is fixed when
\* phase 2 starts and stays as it is.
C30_PhaseOrdering ==
  cfg.op = "workflow" =>
    /\ ProcessPhaseBegun =>
         \A i \in DOMAIN scanState : scanState[i] \in {"done", "skipped"}
    /\ (pc = "process" \/ taskState # <<>>) =>
         /\ \A i \in DOMAIN scanState : scanState[i] \in {"done", "skipped"}
         /\ scanResults.defined
         /\ ~Flattened.threw
         /\ items = Flattened.items
         /\ DOMAIN taskState = DOMAIN items

\* Two scans have settled and the two sub-items they found are being
\* processed.
C30_Witness ==
  /\ cfg.op = "workflow"
  /\ pc = "process"
  /\ Len(scanItems) = 2
  /\ \A i \in DOMAIN scanState : scanState[i] = "done"
  /\ Len(items) = 2
  /\ taskState[1] \in {"done", "threw"}
  /\ taskState[2] = "running"

\* concat(extract(s, outcome) for s in scanItems), over the first n scan items.
RECURSIVE FlattenInInputOrder(_)
FlattenInInputOrder(n) ==
  IF n = 0 THEN <<>>
  ELSE FlattenInInputOrder(n - 1) \o
         (IF SkipsScanResult(ScanResultOf(n))
            THEN <<>>
            ELSE extractedItems(scanItems[n], ScanResultOf(n), cfg.hasExtract))

\* C31 Flatten order: the process items a workflow builds are the extracted
\* sub-items concatenated in the input order of scanItems, whatever the order
\* in which the scans completed and whatever the form of the scan-item keys.
C31_FlattenOrder ==
  (cfg.op = "workflow" /\ pc = "process") =>
    items = FlattenInInputOrder(Len(scanItems))

\* With one scan at a time and keys that are not integer-like the order is the
\* input order.
C31_SequentialNamedKeys ==
  (/\ cfg.op = "workflow"
   /\ pc = "process"
   /\ concurrency(cfg) = 1
   /\ \A i \in DOMAIN scanItems : scanItems[i] \notin ArrayIndexKeys) =>
    items = FlattenInInputOrder(Len(scanItems))

\* C32 A throwing observer does not corrupt the aggregate: an item whose
\* processFunction succeeded and for which the progress callback threw has
\* exactly one entry in processResults, and that entry is its successful
\* result.
C32_ThrowingObserverKeepsAggregate ==
  cfg.op = "process" =>
    \A i \in DOMAIN items :
      (fnLog[i].kind = "resolved" /\ ObserverThrewFor(i)) =>
        /\ Cardinality(PositionsOf(i)) = 1
        /\ \A p \in PositionsOf(i) : processResults.list[p] = ResultRecord(fnLog[i])

\* C33 Observer arguments: the second argument of the progress callback is the
\* number of units completed so far, so over successive invocations it is
\* strictly increasing and, when every item was reported, ends at the total;
\* the third argument is the number of items of the run.
C33_ObserverArguments ==
  (cfg.op = "process" /\ cfg.hasCallback) =>
    /\ \A n \in DOMAIN cbCalls : cbCalls[n].total = Len(items)
    /\ \A m, n \in DOMAIN cbCalls : m < n => cbCalls[m].index < cbCalls[n].index
    /\ (pc = "resolved" /\ cbCalls # <<>> /\ Len(cbCalls) = Len(items)) =>
         cbCalls[Len(cbCalls)].index = Len(items)

\* What the callback does receive: the 0-based input index of the item and the
\* length of the items array of this call.
C33_ObserverGetsInputIndex ==
  (cfg.op = "process" /\ cfg.hasCallback) =>
    \A n \in DOMAIN cbCalls :
      /\ cbCalls[n].index = cbCalls[n].task - 1
      /\ cbCalls[n].total = Len(items)

\* What a non-failed scan result contributes by default: the elements of an
\* array in order, nothing for null or undefined, itself otherwise.
DefaultContribution(scanResult) ==
  IF scanResult.kind = "array"
    THEN [i \in DOMAIN scanResult.elems |-> Raw(scanResult.elems[i])]
    ELSE IF scanResult.kind = "null" THEN <<>> ELSE <<Whole(scanResult)>>

RECURSIVE DefaultFlatten(_)
DefaultFlatten(entries) ==
  IF entries = <<>> THEN <<>>
  ELSE DefaultContribution(Head(entries).val) \o DefaultFlatten(Tail(entries))

\* C34 Default extraction: in a workflow without extractItemsFromScanResult
\* whose scans all succeeded, the scan phase does not abort the workflow, and
\* the process items are, entry by entry, the elements of an array result in
\* order, a non-array truthy result itself, and nothing for an empty array or
\* a null result.
C34_DefaultExtraction ==
  (/\ cfg.op = "workflow"
   /\ ~cfg.hasExtract
   /\ pc # "scan"
   /\ scanItems # <<>>
   /\ \A i \in DOMAIN scanState : scanState[i] = "done") =>
    /\ pc = "rejected" => taskState # <<>>
    /\ taskState # <<>> => items = DefaultFlatten(ObjectEntries(scanResults.entries))

\* The same for scans that did not resolve with null or undefined.
C34_WithoutNullResults ==
  (\A p \in DOMAIN scanResults.entries : scanResults.entries[p].val.kind # "null")
    => C34_DefaultExtraction

\* ------------------------------------- runParallel / runParallelSyncs
\* C35 Drain before return: when runParallel resolves, every job it started
\* has settled; none is still in flight.
C35_DrainBeforeReturn ==
  jpPc = "resolved" =>
    /\ JobsInFlight = {}
    /\ \A j \in DOMAIN jobState : jobState[j] = "settled"

\* ------------------------------------- CpanelReset.run / CpanelCreate.run
\* How many of the records handed to generateSummary carry the given
\* resetStatus (createStatus).
WithResetStatus(v) ==
  Cardinality({p \in DOMAIN sumInput.recs : sumInput.recs[p].resetStatus = v})

\* C36 Call-site summary faithfulness: for the records of the password-reset
\* and account-creation commands, summary.failed is the number of records
\* whose resetStatus (createStatus) is 'FAILED' and summary.successful the
\* number whose value is 'SUCCESS', also for records of API calls that
\* returned false without throwing.
C36_CallSiteSummary ==
  sumPc = "returned" =>
    /\ summary.failed = WithResetStatus("FAILED")
    /\ summary.successful = WithResetStatus("SUCCESS")

\* ------------------------------------------------- createRateLimitedTasks
\* C37 Zero delay is honoured: a call with options.delay = 0 never pauses
\* between batches, and a call without options.delay pauses 1000 ms between
\* consecutive batches.
C37_ZeroDelayHonoured ==
  cfg.op = "rateLimited" =>
    /\ (cfg.delay.given /\ cfg.delay.ms = 0) => (pauses = 0 /\ rlPc # "sleep")
    /\ (~cfg.delay.given /\ rlPc = "sleep") => delayBetweenBatches(cfg) = 1000

\* Without options.delay the pause between consecutive batches is 1000 ms.
C37_DefaultDelay ==
  (cfg.op = "rateLimited" /\ ~cfg.delay.given) =>
    /\ delayBetweenBatches(cfg) = 1000
    /\ rlPc = "resolved" => pauses = Max(Len(batches) - 1, 0)

\* ------------------------------------------------------ ImapService.sync
\* The sync subprocesses that were spawned and have not ended.
ChildrenInFlight == {t \in DOMAIN childState : childState[t] = "spawned"}

\* C38 Sync parallelism: at most max(1, jobs) sync subprocesses are in flight
\* at any instant; with jobs absent, not a number, 0, 1 or negative the tasks
\* run strictly one at a time, each starting only when all before it have
\* settled, in the order of the CSV rows.
C38_SyncParallelism ==
  /\ Cardinality(ChildrenInFlight) <= Max(1, jobs)
  /\ \A t, u \in DOMAIN syncTasks : t < u => syncTasks[t] < syncTasks[u]
  /\ \A t, u \in DOMAIN syncTaskState :
       (t < u /\ syncTaskState[u] # "pending") => syncTaskState[t] # "pending"
  /\ options.jobs <= 1 =>
       /\ Cardinality(ChildrenInFlight) <= 1
       /\ \A t, u \in DOMAIN syncTaskState :
            (t < u /\ syncTaskState[u] # "pending") =>
               syncTaskState[t] \in {"resolved", "rejected"}

\* With jobs = 2, two of three sync subprocesses are in flight and the third
\* task waits.
C38_Witness ==
  /\ syPc = "running"
  /\ options.jobs = 2
  /\ Len(syncTasks) = 3
  /\ ChildrenInFlight = {1, 2}
  /\ syncTaskState[3] = "pending"

\* With a negative jobs value the second task runs after the first has ended.
C38_SequentialWitness ==
  /\ syPc = "running"
  /\ options.jobs = -1
  /\ Len(syncTasks) = 2
  /\ syncTaskState[1] = "resolved"
  /\ ChildrenInFlight = {2}

\* ---------------------------- ImapService.createSyncTask: display and spawn
\* The row with other passwords.
WithPasswords(config, p1, p2) == [config EXCEPT !.src_pass = p1, !.dst_pass = p2]

\* C39 Password redaction is independent of the secrets: the command text shown
\* in debug or dry-run mode holds neither the src_pass nor the dst_pass value,
\* whatever the other fields of the row are; rows that differ only in their
\* passwords are shown as the same command; and the arguments handed to spawn
\* are the unredacted ones.
C39_RedactionHidesPasswords ==
  rdPc = "spawned" =>
    /\ \A w \in DOMAIN taskOutput : taskOutput[w] \notin {rdConfig.src_pass, rdConfig.dst_pass}
    /\ \A p1, p2 \in Passwords :
         taskOutput # <<>> =>
           DisplayedCommand(WithPasswords(rdConfig, p1, p2), rdOptions) = taskOutput
    /\ spawnCall = CommandLine(rdConfig, rdOptions)

\* The same for rows none of whose host and user names is a password flag.
C39_WithOrdinaryFields ==
  (\A f \in {"src_host", "src_user", "dst_host", "dst_user"} :
     rdConfig[f] \notin {"--password1", "--password2"})
    => C39_RedactionHidesPasswords

====
